---- MODULE Spec2Model ----
(***************************************************************************)
(* Concurrent gray-scale Mandelbrot plotter (src/src/main.rs).             *)
(*                                                                         *)
(* main parses its arguments, allocates the pixel buffer, cuts it into     *)
(* bands with chunks_mut, renders every band in its own scoped thread and, *)
(* once crossbeam::scope has joined them, hands the buffer to write_image. *)
(*                                                                         *)
(* Three specifications:                                                   *)
(*   Spec        main as a state machine, one action per step of main and  *)
(*               per step of a band thread;                                *)
(*   SpecPart    the band arithmetic of main applied to every image size   *)
(*               and worker count within the bounds;                       *)
(*   SpecEscape  escape_time applied to every probe point and limit within *)
(*               the bounds.                                               *)
(***************************************************************************)
EXTENDS Integers, Sequences, FiniteSets, TLC

(***************************************************************************)
(* Bounds of the model.                                                    *)
(***************************************************************************)
\* Width of the significand of the binary floating-point numbers.  The
\* program computes in f64 (53 bits); the model rounds in the same way
\* (to nearest, ties to even) after every operation, at this width.
FloatBits == 8
\* Largest iteration limit given to escape_time in SpecEscape.
MaxLimit == 6
\* Largest image height, width and worker count in SpecPart.
MaxRows == 17
MaxWidth == 2
MaxWorkers == 8

(***************************************************************************)
(* f64 arithmetic.  A number is [m |-> significand, e |-> exponent] and    *)
(* stands for m * 2^e; it is kept normalised (m = 0 and e = 0, or          *)
(* 2^(FloatBits-1) <= |m| < 2^FloatBits), so that equal numbers are equal  *)
(* records.  The exponent is not bounded: no input of the model comes near *)
(* the overflow or underflow thresholds of f64.                            *)
(***************************************************************************)
Abs(n) == IF n < 0 THEN -n ELSE n

Sign(n) == IF n < 0 THEN -1 ELSE 1

RECURSIVE BitLength(_)
BitLength(n) == IF n = 0 THEN 0 ELSE 1 + BitLength(n \div 2)

\* m * 2^e rounded to FloatBits significant bits, to nearest, ties to even.
Round(m, e) ==
    IF m = 0 THEN [m |-> 0, e |-> 0]
    ELSE LET a  == Abs(m)
             bl == BitLength(a)
         IN  IF bl <= FloatBits
             THEN [m |-> Sign(m) * a * 2^(FloatBits - bl), e |-> e - (FloatBits - bl)]
             ELSE LET sh   == bl - FloatBits
                      q    == a \div 2^sh
                      r    == a % 2^sh
                      half == 2^(sh - 1)
                      up   == IF r > half \/ (r = half /\ q % 2 = 1) THEN q + 1 ELSE q
                  IN  IF up = 2^FloatBits
                      THEN [m |-> Sign(m) * 2^(FloatBits - 1), e |-> e + sh + 1]
                      ELSE [m |-> Sign(m) * up, e |-> e + sh]

\* usize as f64
FromInt(n) == Round(n, 0)

FNeg(a) == [m |-> -a.m, e |-> a.e]

\* a + b.  An operand more than FloatBits + 2 binary places below the other
\* lies under a quarter of its last place and does not change the sum.
FAdd(a, b) ==
    IF a.m = 0 THEN b
    ELSE IF b.m = 0 THEN a
    ELSE IF a.e - b.e > FloatBits + 2 THEN a
    ELSE IF b.e - a.e > FloatBits + 2 THEN b
    ELSE LET e == IF a.e < b.e THEN a.e ELSE b.e
         IN  Round(a.m * 2^(a.e - e) + b.m * 2^(b.e - e), e)

FSub(a, b) == FAdd(a, FNeg(b))

FMul(a, b) == Round(a.m * b.m, a.e + b.e)

\* a / b for b # 0: the quotient to FloatBits + 3 places and a sticky bit
\* for the remainder, then rounded.
FDiv(a, b) ==
    LET k == FloatBits + 2
        n == Abs(a.m) * 2^k
        q == n \div Abs(b.m)
        r == n % Abs(b.m)
        s == Sign(a.m) * Sign(b.m)
    IN  Round(s * (2 * q + (IF r = 0 THEN 0 ELSE 1)), a.e - b.e - k - 1)

\* a > b.  Normalised numbers of one sign compare by exponent, then by
\* significand.
FGt(a, b) ==
    IF a.m = 0 THEN b.m < 0
    ELSE IF b.m = 0 THEN a.m > 0
    ELSE IF Sign(a.m) # Sign(b.m) THEN a.m > 0
    ELSE IF a.e # b.e THEN (IF a.m > 0 THEN a.e > b.e ELSE a.e < b.e)
    ELSE a.m > b.m

\* k / 2^d as a number: the literals of the model's inputs.
Dyadic(k, d) == Round(k, -d)

(***************************************************************************)
(* num::Complex<f64>                                                       *)
(***************************************************************************)
Complex(re, im) == [re |-> re, im |-> im]

\* Complex::mul: (a.re*b.re - a.im*b.im, a.re*b.im + a.im*b.re)
CMul(a, b) ==
    Complex(FSub(FMul(a.re, b.re), FMul(a.im, b.im)),
            FAdd(FMul(a.re, b.im), FMul(a.im, b.re)))

CAdd(a, b) == Complex(FAdd(a.re, b.re), FAdd(a.im, b.im))

\* Complex::norm_sqr: re*re + im*im
norm_sqr(z) == FAdd(FMul(z.re, z.re), FMul(z.im, z.im))

(***************************************************************************)
(* escape_time (main.rs:22-32).  An Option is None or Some(x).             *)
(***************************************************************************)
None == [tag |-> "None"]

Some(x) == [tag |-> "Some", some |-> x]

Bailout == FromInt(4)

\* escape_step counting the iterations from 1.
escape_step_from_one(c, s) ==
    IF s.ret # None THEN s
    ELSE LET z1 == CAdd(CMul(s.z, s.z), c)
         IN  IF FGt(norm_sqr(z1), Bailout)
             THEN [i |-> s.i, z |-> z1, ret |-> Some(s.i + 1)]
             ELSE [i |-> s.i + 1, z |-> z1, ret |-> None]

\* One turn of the loop "for i in 0..limit": s is the loop's state, the
\* next index i, the current z and what the loop has returned so far.
escape_step(c, s) ==
    IF s.ret # None THEN s
    ELSE LET z1 == CAdd(CMul(s.z, s.z), c)
         IN  IF FGt(norm_sqr(z1), Bailout)
             THEN [i |-> s.i, z |-> z1, ret |-> Some(s.i)]
             ELSE [i |-> s.i + 1, z |-> z1, ret |-> None]

\* n turns of the loop, one after the other (halved, to keep the evaluation
\* shallow).
RECURSIVE escape_loop(_, _, _)
escape_loop(c, s, n) ==
    IF n = 0 \/ s.ret # None THEN s
    ELSE IF n = 1 THEN escape_step(c, s)
    ELSE escape_loop(c, escape_loop(c, s, n \div 2), n - n \div 2)

escape_time(c, limit) ==
    escape_loop(c, [i |-> 0, z |-> Complex(FromInt(0), FromInt(0)), ret |-> None],
                limit).ret

(***************************************************************************)
(* Argument strings are sequences of characters.                           *)
(***************************************************************************)
DigitChars == <<"0", "1", "2", "3", "4", "5", "6", "7", "8", "9">>

IsDigit(ch) == \E d \in 1..10 : DigitChars[d] = ch

DigitValue(ch) == (CHOOSE d \in 1..10 : DigitChars[d] = ch) - 1

RECURSIVE DecimalValue(_)
DecimalValue(s) ==
    IF s = <<>> THEN 0
    ELSE 10 * DecimalValue(SubSeq(s, 1, Len(s) - 1)) + DigitValue(s[Len(s)])

AllDigits(s) == s # <<>> /\ \A i \in 1..Len(s) : IsDigit(s[i])

\* usize::from_str: an optional "+" and at least one decimal digit (the
\* inputs of the model are far too short to overflow usize).
usize_from_str(s) ==
    LET d == IF s # <<>> /\ Head(s) = "+" THEN Tail(s) ELSE s
    IN  IF AllDigits(d) THEN Some(DecimalValue(d)) ELSE None

\* f64::from_str on plain decimal notation: an optional sign, digits and an
\* optional fraction (the notations with an exponent, without integer part,
\* "inf" and "nan" are not among the inputs of the model).  The result is the decimal's value correctly rounded;
\* for the inputs of the model numerator and power of ten are exact, so the
\* rounded quotient is that value.
f64_from_str(s) ==
    LET neg  == s # <<>> /\ Head(s) = "-"
        u    == IF s # <<>> /\ Head(s) \in {"-", "+"} THEN Tail(s) ELSE s
        dots == {i \in 1..Len(u) : u[i] = "."}
    IN  IF dots = {}
        THEN IF AllDigits(u)
             THEN Some(FromInt((IF neg THEN -1 ELSE 1) * DecimalValue(u)))
             ELSE None
        ELSE LET p    == CHOOSE i \in dots : \A j \in dots : i <= j
                 ip   == SubSeq(u, 1, p - 1)
                 fp   == SubSeq(u, p + 1, Len(u))
             IN  IF AllDigits(ip) /\ AllDigits(fp)
                 THEN Some(FDiv(FromInt((IF neg THEN -1 ELSE 1) * DecimalValue(ip \o fp)),
                                FromInt(10^Len(fp))))
                 ELSE None

\* T::from_str for the two types parse_pair is used at.
from_str(T, s) == IF T = "usize" THEN usize_from_str(s) ELSE f64_from_str(s)

\* parse_pair::<T> (main.rs:35-45): split at the first separator and parse
\* both sides with T::from_str.
parse_pair(T, s, separator) ==
    LET found == {i \in 1..Len(s) : s[i] = separator}
    IN  IF found = {} THEN None
        ELSE LET index == CHOOSE i \in found : \A j \in found : i <= j
                 l == from_str(T, SubSeq(s, 1, index - 1))
                 r == from_str(T, SubSeq(s, index + 1, Len(s)))
             IN  IF l # None /\ r # None THEN Some(<<l.some, r.some>>) ELSE None

\* parse_complex (main.rs:49-54)
parse_complex(s) ==
    LET p == parse_pair("f64", s, ",")
    IN  IF p = None THEN None ELSE Some(Complex(p.some[1], p.some[2]))

(***************************************************************************)
(* pixel_to_point (main.rs:58-72).  bounds and pixel are pairs <<x, y>>.   *)
(***************************************************************************)
pixel_to_point(bnds, pixel, ul, lr) ==
    LET width  == FSub(lr.re, ul.re)
        height == FSub(ul.im, lr.im)
    IN  Complex(FAdd(ul.re, FMul(FDiv(FromInt(pixel[1]), FromInt(bnds[1])), width)),
                FSub(ul.im, FMul(FDiv(FromInt(pixel[2]), FromInt(bnds[2])), height)))

(***************************************************************************)
(* render (main.rs:76-109)                                                 *)
(***************************************************************************)
\* The iteration limit render gives to escape_time.
RenderLimit == 255

\* The byte render stores for one pixel (main.rs:89-106).
PixelValue(bnds, pixel, ul, lr) ==
    LET count == escape_time(pixel_to_point(bnds, pixel, ul, lr), RenderLimit)
    IN  IF count = None THEN 0 ELSE 255 - (count.some % 256)

\* The index render stores it at, within the slice it was given.
PixelIndex(bnds, pixel) == pixel[1] + bnds[1] * pixel[2]

\* The slice one call of render leaves behind: render as a function of its
\* arguments, for a slice that satisfies the assertion.
render(bnds, ul, lr) ==
    [k \in 0..(bnds[1] * bnds[2] - 1) |->
        PixelValue(bnds, <<k % bnds[1], k \div bnds[1]>>, ul, lr)]

(***************************************************************************)
(* The band arithmetic of main (main.rs:161-199)                           *)
(***************************************************************************)
threads == 8

Min(a, b) == IF a < b THEN a ELSE b

\* RowsPerBand without the "+ 1".
RowsPerBand_floor(rows, workers) == rows \div workers

RowsPerBand(rows, workers) == rows \div workers + 1

\* ChunkSize one element too long.
ChunkSize_long(rpb, width) == rpb * width + 1

ChunkSize(rpb, width) == rpb * width

\* chunks_mut with every slice but the first starting one element early.
chunks_overlapping(len, chunk_size) ==
    [i \in 1..((len + chunk_size - 1) \div chunk_size) |->
        [start |-> IF i = 1 THEN 0 ELSE (i - 1) * chunk_size - 1,
         len   |-> Min(chunk_size, len - (i - 1) * chunk_size)]]

\* chunks_exact_mut: the short last slice is left out.
chunks_exact_mut(len, chunk_size) ==
    [i \in 1..(len \div chunk_size) |->
        [start |-> (i - 1) * chunk_size, len |-> chunk_size]]

\* slice::chunks_mut for a chunk size > 0: consecutive slices of chunk_size
\* elements, the last one shorter when len is no multiple of it.  A slice
\* is [start, len] within the buffer.
chunks_mut(len, chunk_size) ==
    [i \in 1..((len + chunk_size - 1) \div chunk_size) |->
        [start |-> (i - 1) * chunk_size,
         len   |-> Min(chunk_size, len - (i - 1) * chunk_size)]]

\* main.rs:184: the first image row of band i (0-based).
BandTop(i, rpb) == rpb * i

\* main.rs:190: the rows of a band, from the length of its slice.
BandHeight(band, width) == band.len \div width

\* What one turn of the spawning loop computes for band i (main.rs:184-199).
BandTask(i, band, bnds, rpb, ul, lr) ==
    LET top    == BandTop(i, rpb)
        height == BandHeight(band, bnds[1])
    IN  [top         |-> top,
         band_bounds |-> <<bnds[1], height>>,
         upper_left  |-> pixel_to_point(bnds, <<0, top>>, ul, lr),
         lower_right |-> pixel_to_point(bnds, <<bnds[1], top + height>>, ul, lr)]

(***************************************************************************)
(* The inputs: the command lines the model runs main on.                   *)
(***************************************************************************)
\* args[2]: image sizes that parse (with and without pixels) and strings
\* that do not.
DimArgs ==
    { <<"1", "x", "9">>, <<"1", "x", "8">>, <<"2", "x", "3">>, <<"1", "x", "1">>,
      <<"1", "x", "7">>,
      <<"0", "x", "2">>, <<"2", "x", "0">>,
      <<"2", "x">>, <<"7">>, <<"2", "x", "a">>, <<"-", "1", "x", "2">> }

\* args[3]: upper left corners -2+0.5i and -2+1i, and one without a comma.
UpperLeftArgs ==
    { <<"-", "2", ",", "0", ".", "5">>, <<"-", "2", ",", "1">>, <<"-", "2">> }

\* args[4]: the lower right corner 1-1i, and one with a malformed number.
LowerRightArgs == { <<"1", ",", "-", "1">>, <<"1", ",", "i">> }

FileArg == <<"m", ".", "p", "n", "g">>

\* std::env::args() without args[0]: four arguments, or too few.
ArgVectors ==
    { <<FileArg, d, u, l>> : d \in DimArgs, u \in UpperLeftArgs, l \in LowerRightArgs }
        \cup { <<FileArg>> }

\* args.len() that main expects, args[0] included (main.rs:140).
ArgCount == 5

(***************************************************************************)
(* State                                                                   *)
(***************************************************************************)
VARIABLES
    args,           \* the command line after args[0]
    pc,             \* where main is: "args", "parse", "alloc", "chunks",
                    \* "scope", "write", and at its end "done", "exit1", "panic"
    bounds,         \* <<width, height>>
    upper_left,
    lower_right,
    pixels,         \* the buffer, indexed from 0
    rows_per_band,
    bands,          \* the slices chunks_mut cut the buffer into
    tasks,          \* the band threads spawned so far, in spawning order
    writers,        \* history: for every index of pixels, the threads that wrote it
    image,          \* what write_image was given
    part,           \* SpecPart: one application of the band arithmetic
    probe           \* SpecEscape: one application of escape_time

vars == <<args, pc, bounds, upper_left, lower_right, pixels, rows_per_band,
          bands, tasks, writers, image, part, probe>>

mainVars == <<args, pc, bounds, upper_left, lower_right, pixels, rows_per_band,
              bands, tasks, writers, image>>

Idle == [st |-> "idle"]

MainState(at) ==
    /\ pc = at
    /\ bounds = <<0, 0>>
    /\ upper_left = None
    /\ lower_right = None
    /\ pixels = <<>>
    /\ rows_per_band = 0
    /\ bands = <<>>
    /\ tasks = <<>>
    /\ writers = <<>>
    /\ image = None

Init ==
    /\ args \in ArgVectors
    /\ MainState("args")
    /\ part = Idle
    /\ probe = Idle

(***************************************************************************)
(* main (main.rs:128-213)                                                  *)
(***************************************************************************)
\* main.rs:139-148: the usage message and exit(1) unless there are 5 args.
CheckArgs ==
    /\ pc = "args"
    /\ pc' = IF Len(args) + 1 # ArgCount THEN "exit1" ELSE "parse"
    /\ UNCHANGED <<args, bounds, upper_left, lower_right, pixels, rows_per_band,
                   bands, tasks, writers, image, part, probe>>

\* main.rs:150-155: the three parses, each with expect.
ParseArgs ==
    /\ pc = "parse"
    /\ LET b  == parse_pair("usize", args[2], "x")
           ul == parse_complex(args[3])
           lr == parse_complex(args[4])
       IN  IF b = None \/ ul = None \/ lr = None
           THEN /\ pc' = "panic"
                /\ UNCHANGED <<bounds, upper_left, lower_right>>
           ELSE /\ pc' = "alloc"
                /\ bounds' = b.some
                /\ upper_left' = ul.some
                /\ lower_right' = lr.some
    /\ UNCHANGED <<args, pixels, rows_per_band, bands, tasks, writers, image,
                   part, probe>>

\* main.rs:159-162: the zeroed buffer and rows_per_band.
Alloc ==
    /\ pc = "alloc"
    /\ pixels' = [k \in 0..(bounds[1] * bounds[2] - 1) |-> 0]
    /\ writers' = [k \in 0..(bounds[1] * bounds[2] - 1) |-> {}]
    /\ rows_per_band' = RowsPerBand(bounds[2], threads)
    /\ pc' = "chunks"
    /\ UNCHANGED <<args, bounds, upper_left, lower_right, bands, tasks, image,
                   part, probe>>

\* main.rs:175-176: chunks_mut panics on a chunk size of 0.
Chunks ==
    /\ pc = "chunks"
    /\ LET size == ChunkSize(rows_per_band, bounds[1])
       IN  IF size = 0
           THEN pc' = "panic" /\ UNCHANGED bands
           ELSE pc' = "scope" /\ bands' = chunks_mut(bounds[1] * bounds[2], size)
    /\ UNCHANGED <<args, bounds, upper_left, lower_right, pixels, rows_per_band,
                   tasks, writers, image, part, probe>>

\* main.rs:178-204: one turn of the loop in the scope: the next band gets
\* its bounds and corners and a thread of its own.
Spawn ==
    /\ pc = "scope"
    /\ Len(tasks) < Len(bands)
    /\ LET i == Len(tasks)
           t == BandTask(i, bands[i + 1], bounds, rows_per_band, upper_left, lower_right)
       IN  tasks' = Append(tasks,
                [st          |-> "spawned",
                 band_bounds |-> t.band_bounds,
                 upper_left  |-> t.upper_left,
                 lower_right |-> t.lower_right,
                 row         |-> 0,
                 column      |-> 0])
    /\ UNCHANGED <<args, pc, bounds, upper_left, lower_right, pixels, rows_per_band,
                   bands, writers, image, part, probe>>

\* main.rs:82: a band thread enters render; the assertion lets it into the
\* loops or panics.
RenderEnter(t) ==
    /\ t \in 1..Len(tasks)
    /\ tasks[t].st = "spawned"
    /\ LET b == tasks[t].band_bounds
       IN  tasks' = [tasks EXCEPT ![t].st =
                IF bands[t].len # b[1] * b[2] THEN "panicked"
                ELSE IF b[1] = 0 \/ b[2] = 0 THEN "finished"
                ELSE "rendering"]
    /\ UNCHANGED <<args, pc, bounds, upper_left, lower_right, pixels, rows_per_band,
                   bands, writers, image, part, probe>>

\* main.rs:84-108: one turn of the inner loop: the pixel at (column, row) of
\* the band is computed and stored in the band's slice (an index outside the
\* slice panics), and the loops move on.
RenderPixel(t) ==
    /\ t \in 1..Len(tasks)
    /\ tasks[t].st = "rendering"
    /\ LET b     == tasks[t].band_bounds
           pixel == <<tasks[t].column, tasks[t].row>>
           idx   == PixelIndex(b, pixel)
           last  == pixel[1] + 1 = b[1] /\ pixel[2] + 1 = b[2]
       IN  IF idx >= bands[t].len
           THEN /\ tasks' = [tasks EXCEPT ![t].st = "panicked"]
                /\ UNCHANGED <<pixels, writers>>
           ELSE /\ pixels' = [pixels EXCEPT ![bands[t].start + idx] =
                        PixelValue(b, pixel, tasks[t].upper_left, tasks[t].lower_right)]
                /\ writers' = [writers EXCEPT ![bands[t].start + idx] = @ \cup {t}]
                /\ tasks' = [tasks EXCEPT
                        ![t].st = IF last THEN "finished" ELSE "rendering",
                        ![t].column = IF pixel[1] + 1 = b[1] THEN 0 ELSE pixel[1] + 1,
                        ![t].row = IF pixel[1] + 1 = b[1] THEN pixel[2] + 1 ELSE pixel[2]]
    /\ UNCHANGED <<args, pc, bounds, upper_left, lower_right, rows_per_band,
                   bands, image, part, probe>>

\* A scope that ends with its loop, without waiting for the threads.
AllSpawned == Len(tasks) = Len(bands)

\* The end of crossbeam::scope waits for: the loop is over and every thread
\* it spawned has ended.
AllJoined ==
    /\ Len(tasks) = Len(bands)
    /\ \A t \in 1..Len(tasks) : tasks[t].st \in {"finished", "panicked"}

\* main.rs:205: the scope ends: it joins the threads.  That it panics when
\* one of them panicked is the behaviour of the crossbeam versions whose
\* spawn takes a closure without argument, as here; the crate is not among
\* the sources, and no band thread of this program ever panics.
Join ==
    /\ pc = "scope"
    /\ Len(tasks) = Len(bands)
    /\ AllJoined
    /\ pc' = IF \E t \in 1..Len(tasks) : tasks[t].st = "panicked"
             THEN "panic" ELSE "write"
    /\ UNCHANGED <<args, bounds, upper_left, lower_right, pixels, rows_per_band,
                   bands, tasks, writers, image, part, probe>>

\* main.rs:209-210: write_image gets the buffer; creating or encoding the
\* file may fail, and expect then panics.
WriteImage ==
    /\ pc = "write"
    /\ \E ok \in BOOLEAN :
        IF ok THEN pc' = "done" /\ image' = Some(pixels)
        ELSE pc' = "panic" /\ UNCHANGED image
    /\ UNCHANGED <<args, bounds, upper_left, lower_right, pixels, rows_per_band,
                   bands, tasks, writers, part, probe>>

Next ==
    \/ CheckArgs
    \/ ParseArgs
    \/ Alloc
    \/ Chunks
    \/ Spawn
    \/ \E t \in 1..Len(tasks) : RenderEnter(t)
    \/ \E t \in 1..Len(tasks) : RenderPixel(t)
    \/ Join
    \/ WriteImage

Spec == Init /\ [][Next]_vars

(***************************************************************************)
(* SpecPart: the band arithmetic of main for every image size and worker   *)
(* count within the bounds.  main itself stays where it is.                *)
(***************************************************************************)
PartInputs ==
    { [st |-> "input", rows |-> r, width |-> w, workers |-> k] :
        r \in 1..MaxRows, w \in 1..MaxWidth, k \in 1..MaxWorkers }

InitPart ==
    /\ args = <<FileArg>>
    /\ MainState("off")
    /\ part \in PartInputs
    /\ probe = Idle

\* main.rs:162
PartRows ==
    /\ part.st = "input"
    /\ part' = [st |-> "rows", rows |-> part.rows, width |-> part.width,
                workers |-> part.workers,
                rows_per_band |-> RowsPerBand(part.rows, part.workers)]
    /\ UNCHANGED <<mainVars, probe>>

\* main.rs:175-191: the slices, and for each the top and height the loop
\* computes for it.
PartBands ==
    /\ part.st = "rows"
    /\ LET size == ChunkSize(part.rows_per_band, part.width)
           cut  == chunks_mut(part.width * part.rows, size)
       IN  part' = IF size = 0
                   THEN [st |-> "panic", rows |-> part.rows, width |-> part.width,
                         workers |-> part.workers,
                         rows_per_band |-> part.rows_per_band]
                   ELSE [st |-> "bands", rows |-> part.rows, width |-> part.width,
                         workers |-> part.workers,
                         rows_per_band |-> part.rows_per_band,
                         bands |-> [i \in 1..Len(cut) |->
                            [start  |-> cut[i].start,
                             len    |-> cut[i].len,
                             top    |-> BandTop(i - 1, part.rows_per_band),
                             height |-> BandHeight(cut[i], part.width)]]]
    /\ UNCHANGED <<mainVars, probe>>

NextPart == PartRows \/ PartBands

SpecPart == InitPart /\ [][NextPart]_vars

(***************************************************************************)
(* SpecEscape: escape_time on every probe point and limit within the       *)
(* bounds.                                                                 *)
(***************************************************************************)
\* The points k/2 + (j/2)i around the set, 0 and 3 among them.
ProbePoints == { Complex(Dyadic(k, 1), Dyadic(j, 1)) : k \in -4..6, j \in -2..2 }

InitEscape ==
    /\ args = <<FileArg>>
    /\ MainState("off")
    /\ part = Idle
    /\ probe \in { [st |-> "input", c |-> c, limit |-> n] :
                        c \in ProbePoints, n \in 0..MaxLimit }

EscapeApply ==
    /\ probe.st = "input"
    /\ probe' = [st |-> "result", c |-> probe.c, limit |-> probe.limit,
                 ret |-> escape_time(probe.c, probe.limit)]
    /\ UNCHANGED <<mainVars, part>>

NextEscape == EscapeApply

SpecEscape == InitEscape /\ [][NextEscape]_vars

(***************************************************************************)
(* Properties                                                              *)
(***************************************************************************)
\* The indices of pixels that band t's slice covers.
BandRange(t) == bands[t].start .. (bands[t].start + bands[t].len - 1)

RECURSIVE SumLens(_)
SumLens(bs) == IF bs = <<>> THEN 0 ELSE Head(bs).len + SumLens(Tail(bs))

CeilDiv(a, b) == (a + b - 1) \div b

\* C1: no two band threads write the same index of the pixel buffer: every
\* index a thread has written lies in the slice it was given, and the slices
\* of different threads have no index in common.
C1_DisjointWrites ==
    /\ \A k \in DOMAIN writers :
        /\ Cardinality(writers[k]) <= 1
        /\ \A t \in writers[k] : k \in BandRange(t)
    /\ \A s, t \in 1..Len(bands) : s # t => BandRange(s) \cap BandRange(t) = {}

\* Two band threads are in their loops at once, each with a pixel written.
C1_Witness ==
    \E s, t \in 1..Len(tasks) :
        /\ s # t
        /\ tasks[s].st = "rendering" /\ tasks[t].st = "rendering"
        /\ \E k \in DOMAIN writers : s \in writers[k]
        /\ \E k \in DOMAIN writers : t \in writers[k]

\* C2: once write_image has been reached, every band has its thread and
\* every band thread has finished.
C2_JoinBeforeWrite ==
    (pc \in {"write", "done"} \/ image # None) =>
        /\ Len(tasks) = Len(bands)
        /\ \A t \in 1..Len(tasks) : tasks[t].st = "finished"

\* write_image has returned for an image of several bands.
C2_Witness == pc = "done" /\ Len(tasks) >= 2

\* C4 (as claimed): the buffer write_image is given equals the buffer one
\* call of render over the whole image with the full bounds and corners
\* produces.
C4_BandedEqualsWhole ==
    image # None => image.some = render(bounds, upper_left, lower_right)

\* C6 (as claimed): rows_per_band is the ceiling of height / threads.
C6_RowsPerBandIsCeil ==
    (pc \in {"chunks", "scope", "write", "done"} /\ bounds[2] >= 1) =>
        rows_per_band = CeilDiv(bounds[2], threads)

\* C9 (as claimed): past the parsing step width and height are positive.
C9_BoundsPositive ==
    pc \in {"alloc", "chunks", "scope", "write", "done"} =>
        bounds[1] > 0 /\ bounds[2] > 0

\* C10: every band handed to render has as many elements as its band bounds
\* say, a whole number of rows; the assertion of render never fails; the
\* bands together, and the buffer write_image is given, have width * height
\* elements.
C10_BandLengths ==
    /\ \A t \in 1..Len(tasks) :
        /\ bands[t].len = tasks[t].band_bounds[1] * tasks[t].band_bounds[2]
        /\ bands[t].len % bounds[1] = 0
        /\ tasks[t].st # "panicked"
    /\ pc \in {"scope", "write", "done"} => SumLens(bands) = bounds[1] * bounds[2]
    /\ image # None => Cardinality(DOMAIN image.some) = bounds[1] * bounds[2]

\* A 2 x 3 image has gone through render, band by band, and write_image.
C10_Witness ==
    /\ pc = "done"
    /\ bounds = <<2, 3>>
    /\ \A t \in 1..Len(tasks) : tasks[t].st = "finished"

\* C5: the bands partition the rows: band i (from 0) starts at row
\* i * rows_per_band, where its slice starts, and has
\* min(rows_per_band, rows - top) rows; every row lies in exactly one band;
\* no slice ends past the buffer; 10 rows for 3 workers give bands of 4, 4
\* and 2 rows.
C5_BandsPartitionRows ==
    part.st = "bands" =>
        LET bs == part.bands
        IN  /\ \A i \in 1..Len(bs) :
                /\ bs[i].top = (i - 1) * part.rows_per_band
                /\ bs[i].start = bs[i].top * part.width
                /\ bs[i].len = bs[i].height * part.width
                /\ bs[i].height = Min(part.rows_per_band, part.rows - bs[i].top)
                /\ bs[i].start + bs[i].len <= part.width * part.rows
            /\ \A row \in 0..(part.rows - 1) :
                Cardinality({i \in 1..Len(bs) :
                    bs[i].top <= row /\ row < bs[i].top + bs[i].height}) = 1
            /\ (part.rows = 10 /\ part.workers = 3) =>
                [i \in 1..Len(bs) |-> bs[i].height] = <<4, 4, 2>>

\* The bands of an image whose last band is shorter than the others.
C5_Witness ==
    /\ part.st = "bands"
    /\ Len(part.bands) >= 2
    /\ part.bands[Len(part.bands)].height < part.rows_per_band

\* C7 (as claimed): with main's worker count there are as many bands as
\* workers, whatever the height.
C7_BandsEqualWorkers ==
    (part.st = "bands" /\ part.workers = threads) => Len(part.bands) = part.workers

\* C7 (amended): the number of bands is the ceiling of rows / rows_per_band:
\* at least one and at most the worker count.
C7_BandsAtMostWorkers ==
    part.st = "bands" =>
        /\ Len(part.bands) = CeilDiv(part.rows, part.rows_per_band)
        /\ 1 <= Len(part.bands)
        /\ Len(part.bands) <= part.workers

\* With main's worker count: an image cut into as many bands as workers.
C7_Witness ==
    /\ part.st = "bands"
    /\ part.workers = threads
    /\ Len(part.bands) = part.workers

\* The value of z after n updates z <- z*z + c from 0.
RECURSIVE Orbit(_, _)
Orbit(c, n) ==
    IF n = 0 THEN Complex(FromInt(0), FromInt(0))
    ELSE CAdd(CMul(Orbit(c, n - 1), Orbit(c, n - 1)), c)

Escaped(c, n) == FGt(norm_sqr(Orbit(c, n)), Bailout)

\* C8: escape_time(c, limit) is Some(i) for the least i < limit with
\* |z|^2 > 4 after update i + 1, and None when there is none; it is None for
\* c = 0 and Some(0) for c = 3 whenever limit >= 1.
C8_EscapeTime ==
    probe.st = "result" =>
        LET hits == {i \in 0..(probe.limit - 1) : Escaped(probe.c, i + 1)}
        IN  /\ hits = {} => probe.ret = None
            /\ hits # {} =>
                probe.ret = Some(CHOOSE i \in hits : \A j \in hits : i <= j)
            /\ (probe.c = Complex(FromInt(0), FromInt(0)) /\ probe.limit >= 1) =>
                probe.ret = None
            /\ (probe.c = Complex(FromInt(3), FromInt(0)) /\ probe.limit >= 1) =>
                probe.ret = Some(0)

\* escape_time has found a point that leaves after some updates.
C8_Witness ==
    /\ probe.st = "result"
    /\ probe.ret # None
    /\ probe.ret.some >= 2

====
